---- MODULE Spec2Model ----
(***************************************************************************)
(* video-to-notes: the command-line pipeline of main.py (audio extraction, *)
(* transcription, transcript writing, optional note generation, cleanup),  *)
(* the transcript writer save_transcript of src/formatter.py and the       *)
(* chunker and section generator generate_tutorial_notes of src/ai.py.     *)
(*                                                                         *)
(* Text is a sequence of one-character strings; a file is NoFile or the    *)
(* sequence of characters that is durably in it.                           *)
(***************************************************************************)
EXTENDS Integers, Sequences, FiniteSets, TLC

(* ------------------------------ bounds --------------------------------- *)

\* Longest segment stream the recognition capability yields in one run.
MaxSegs == 2

\* Longest transcript text handed directly to generate_tutorial_notes.
MaxTextLen == 5

\* Largest chunk_size the chunker is run with when called directly.
MaxChunk == 3

\* Number of runs of main on the same input.
MaxRuns == 2

\* Number of transcribe_video invocations in one UI process.
MaxUiRuns == 2

(* ------------------------------ text ----------------------------------- *)

NoFile == "NoFile"

RECURSIVE Flatten(_)
\* The concatenation of a sequence of texts.
Flatten(ss) == IF ss = <<>> THEN <<>> ELSE Head(ss) \o Flatten(Tail(ss))

IsPrefix(p, s) == Len(p) <= Len(s) /\ SubSeq(s, 1, Len(p)) = p

\* Python's s[a:b] for 0 <= a, b (clamped to the length of s).
Slice(s, a, b) ==
    LET hi == IF b > Len(s) THEN Len(s) ELSE b
    IN  IF a >= hi THEN <<>> ELSE SubSeq(s, a + 1, hi)

RECURSIVE LStrip(_)
LStrip(s) == IF s # <<>> /\ Head(s) = " " THEN LStrip(Tail(s)) ELSE s

RECURSIVE RStrip(_)
RStrip(s) ==
    IF s # <<>> /\ s[Len(s)] = " " THEN RStrip(SubSeq(s, 1, Len(s) - 1)) ELSE s

\* str.strip() on the whitespace the model uses.
Strip(s) == RStrip(LStrip(s))

RECURSIVE Join(_, _)
\* sep.join(parts)
Join(parts, sep) ==
    IF parts = <<>> THEN <<>>
    ELSE IF Len(parts) = 1 THEN parts[1]
    ELSE parts[1] \o sep \o Join(Tail(parts), sep)

RECURSIVE SplitLines(_, _)
\* The lines of a text: every "\n" ends the line accumulated in cur; a last
\* line without a final "\n" counts as a line too (str.splitlines()).
SplitLines(s, cur) ==
    IF s = <<>> THEN (IF cur = <<>> THEN <<>> ELSE <<cur>>)
    ELSE IF Head(s) = "\n" THEN <<cur>> \o SplitLines(Tail(s), <<>>)
    ELSE SplitLines(Tail(s), Append(cur, Head(s)))

Lines(s) == SplitLines(s, <<>>)

(* --------------------------- timestamps -------------------------------- *)

DigitChar == <<"0", "1", "2", "3", "4", "5", "6", "7", "8", "9">>

RECURSIVE Decimal(_)
\* The decimal digits of a natural number.
Decimal(n) ==
    IF n < 10 THEN <<DigitChar[n + 1]>>
    ELSE Decimal(n \div 10) \o <<DigitChar[(n % 10) + 1]>>

\* Pad2 without the padding: the format specification d.
Pad2_NoPad(n) == Decimal(n)

\* The format specification 02d: at least two digits, padded with zeros.
Pad2(n) == IF n < 10 THEN <<"0">> \o Decimal(n) ELSE Decimal(n)

\* A duration in seconds, a float in the source: sec whole seconds, us whole
\* microseconds of the fraction (0..999999), and sub, what is left below the
\* microsecond: 0 nothing, 1 less than half a microsecond, 2 exactly half,
\* 3 more than half.
Duration(sec, us, sub) == [sec |-> sec, us |-> us, sub |-> sub]

\* A duration given in tenths of a second.
Tenths(t) == Duration(t \div 10, (t % 10) * 100000, 0)

\* timedelta(seconds=seconds): the fraction is rounded to the nearest
\* microsecond, a half to the even one, and a full second is carried.
timedelta(d) ==
    LET up == d.sub = 3 \/ (d.sub = 2 /\ d.us % 2 = 1)
        us == IF up THEN d.us + 1 ELSE d.us
    IN  IF us = 1000000
        THEN [seconds |-> d.sec + 1, microseconds |-> 0]
        ELSE [seconds |-> d.sec, microseconds |-> us]

\* format_timestamp
format_timestamp(seconds) ==
    LET td            == timedelta(seconds)
        total_seconds == td.seconds
        minutes       == total_seconds \div 60
        remainder     == total_seconds % 60
    IN  Pad2(minutes) \o <<":">> \o Pad2(remainder)

(* ---------------------------- segments --------------------------------- *)

\* Texts the recognition capability returns, with the padding it leaves.
RawTexts == { <<" ", "h", "i", " ">> }

\* The k-th raw span of a stream: spans follow one another in time.
RawSegment(k, txt) ==
    [start |-> Tenths((k - 1) * 377), end |-> Tenths(k * 377 + 4), text |-> txt]

\* The streams model.transcribe can yield: 0..MaxSegs spans.
RawStreams ==
    UNION { { [k \in 1..n |-> RawSegment(k, txts[k])] : txts \in [1..n -> RawTexts] }
            : n \in 0..MaxSegs }

\* The dict transcribe_audio yields for one span.
Segment(raw) ==
    [start |-> format_timestamp(raw.start),
     end   |-> format_timestamp(raw.end),
     text  |-> Strip(raw.text)]

\* list(transcribe_audio(...)) on a stream that decodes without error.
transcribe_audio(stream) == [k \in 1..Len(stream) |-> Segment(stream[k])]

SegmentLists == { transcribe_audio(st) : st \in RawStreams }

(* --------------------------- save_transcript --------------------------- *)

\* "# Video Transcript\n\n"
Header ==
    <<"#", " ", "V", "i", "d", "e", "o", " ",
      "T", "r", "a", "n", "s", "c", "r", "i", "p", "t", "\n", "\n">>

\* FormatLine without the line break that ends the line.
FormatLine_NoNewline(segment) ==
    <<"*", "*">> \o segment.start \o <<" ", "-", " ">> \o segment.end
        \o <<"*", "*", ":", " ">> \o segment.text

\* f"**{segment['start']} - {segment['end']}**: {segment['text']}\n"
FormatLine(segment) ==
    <<"*", "*">> \o segment.start \o <<" ", "-", " ">> \o segment.end
        \o <<"*", "*", ":", " ">> \o segment.text \o <<"\n">>

\* What json.dump(data, f, indent=4) writes for one record, k-th of the list.
JsonRecord(segment, k) ==
    (IF k > 1 THEN <<",">> ELSE <<>>)
        \o <<"{", "start:">> \o segment.start \o <<",", "end:">> \o segment.end
        \o <<",", "text:">> \o segment.text \o <<"}">>

\* The writes of json.dump(data, f, indent=4), in order; the pieces of one
\* record are taken as one write.
JsonDump(data) ==
    <<  <<"[">>  >> \o [k \in 1..Len(data) |-> JsonRecord(data[k], k)] \o <<  <<"]">>  >>

\* What the json file holds after a complete write.
JsonText(data) == Flatten(JsonDump(data))

\* What the markdown file holds after a complete write.
MarkdownText(segments) ==
    Header \o Flatten([k \in 1..Len(segments) |-> FormatLine(segments[k])])

(* ------------------------------ state ---------------------------------- *)

VARIABLES
    caller,          \* the entry point under analysis: main, save_transcript or generate_tutorial_notes
    pc,              \* the position of the control flow
    run,             \* how many runs of main have been started
    args,            \* the parsed command line: keep_audio, ai, format
    video_exists,    \* os.path.isfile(video_path)
    temp_audio,      \* whether <input-stem>_temp.wav exists
    out_file,        \* the durable content of the transcript file at output_path
    notes_file,      \* the durable content of <input-stem>_notes.md
    all_segments,    \* the materialised segment list
    f_buf,           \* save_transcript: what f.write has taken and the file does not hold yet
    seg_i,           \* save_transcript: segments whose line has been passed to f.write
    flushed,         \* save_transcript: completed f.flush() calls
    out_before,      \* the content of the transcript file when save_transcript was entered
    chunk_size,      \* generate_tutorial_notes: chunk_size
    overlap,         \* generate_tutorial_notes: overlap
    transcript_text, \* generate_tutorial_notes: transcript_text
    start,           \* generate_tutorial_notes: start
    chunks,          \* generate_tutorial_notes: chunks
    chunk_i,         \* generate_tutorial_notes: chunks the second loop has processed
    final_notes,     \* generate_tutorial_notes: final_notes, as the pieces concatenated so far
    responses,       \* the outcome of every ollama.chat call of this run, in call order
    stages,          \* the stages this run of main has entered, in order
    failed_in,       \* the stage whose exception reached main's handler, or "none"
    exit_code,       \* the exit status of the run, or -1 while it runs
    notes_before,    \* the content of the notes file when this run of main started
    probe,           \* what check_ollama_server returned in this run: "none", "up" or "down"
    ts_in,           \* format_timestamp: the argument seconds
    ts_out,          \* format_timestamp: the string returned
    transcription_state, \* ui: the global slot: segments and transcript_path
    t_pc,            \* ui: the position of the transcribe_video handler
    t_run,           \* ui: how many output directories tempfile.mkdtemp has made
    t_segments,      \* ui: transcribe_video's all_segments
    g_pc,            \* ui: the position of the generate_ai_notes handler
    g_segments,      \* ui: generate_ai_notes's all_segments
    g_path,          \* ui: generate_ai_notes's transcript_path
    g_result,        \* ui: how the last generate_ai_notes invocation ended
    notes_written    \* ui: the last notes file written: whose segments, in whose directory

vars ==
    <<caller, pc, run, args, video_exists, temp_audio, out_file, notes_file,
      all_segments, f_buf, seg_i, flushed, out_before, chunk_size, overlap,
      transcript_text, start, chunks, chunk_i, final_notes, responses, stages,
      failed_in, exit_code, notes_before, probe, ts_in, ts_out,
      transcription_state, t_pc, t_run, t_segments, g_pc, g_segments, g_path,
      g_result, notes_written>>

uiVars == <<transcription_state, t_pc, t_run, t_segments, g_pc, g_segments, g_path,
            g_result, notes_written>>

tsVars == <<ts_in, ts_out>>

mainVars == <<run, args, video_exists, temp_audio, notes_file, stages, failed_in,
              exit_code, notes_before, probe>>

writerVars == <<out_file, f_buf, seg_i, flushed, out_before>>

notesVars == <<chunk_size, overlap, transcript_text, start, chunks, chunk_i,
               final_notes, responses>>

Formats == {"markdown", "json"}

ArgSets == [keep_audio : BOOLEAN, ai : BOOLEAN, format : Formats]

\* A transcript an earlier, unrelated write left at output_path.
OldText == <<"o", "l", "d", "\n">>

(* --------------------- save_transcript, step by step ------------------- *)

\* Where a return or an exception of the callee takes the control flow.
ReturnTo(at_main) == IF caller = "main" THEN at_main ELSE "returned"

RaiseTo(stage) == IF caller = "main" THEN "except" ELSE "raised"

FileOpen == pc \in {"w_header", "w_loop", "w_flush", "j_dump", "j_close"}

\* open(output_path, 'w'): the file is created or truncated.
SaveOpen ==
    /\ pc = "save"
    /\ out_before' = out_file
    /\ out_file' = <<>>
    /\ f_buf' = <<>>
    /\ seg_i' = 0
    /\ flushed' = 0
    /\ pc' = IF args.format = "json" THEN "j_dump" ELSE "w_header"
    /\ UNCHANGED <<uiVars, tsVars, caller, all_segments, mainVars, notesVars>>

\* open raises (the path cannot be written): nothing is touched.
SaveOpenFail ==
    /\ pc = "save"
    /\ pc' = RaiseTo("Writing")
    /\ failed_in' = "Writing"
    /\ out_before' = out_file
    /\ UNCHANGED <<uiVars, tsVars, caller, all_segments, out_file, f_buf, seg_i, flushed, run, args,
                   video_exists, temp_audio, notes_file, stages, exit_code,
                   notes_before, probe, notesVars>>

\* f.write(f"# Video Transcript\n\n")
WriteHeader ==
    /\ pc = "w_header"
    /\ f_buf' = Append(f_buf, Header)
    /\ pc' = "w_loop"
    /\ UNCHANGED <<uiVars, tsVars, caller, all_segments, out_file, seg_i, flushed, out_before,
                   mainVars, notesVars>>

\* for segment in transcript_generator: line = ...; f.write(line)
WriteLine ==
    /\ pc = "w_loop"
    /\ seg_i < Len(all_segments)
    /\ f_buf' = Append(f_buf, FormatLine(all_segments[seg_i + 1]))
    /\ seg_i' = seg_i + 1
    /\ pc' = "w_flush"
    /\ UNCHANGED <<uiVars, tsVars, caller, all_segments, out_file, flushed, out_before,
                   mainVars, notesVars>>

\* FlushLine with a flush() that does not reach the file.
FlushLine_NoWrite ==
    /\ pc = "w_flush"
    /\ flushed' = flushed + 1
    /\ pc' = "w_loop"
    /\ UNCHANGED <<uiVars, tsVars, caller, all_segments, out_file, f_buf, seg_i, out_before,
                   mainVars, notesVars>>

\* f.flush()
FlushLine ==
    /\ pc = "w_flush"
    /\ out_file' = out_file \o Flatten(f_buf)
    /\ f_buf' = <<>>
    /\ flushed' = flushed + 1
    /\ pc' = "w_loop"
    /\ UNCHANGED <<uiVars, tsVars, caller, all_segments, seg_i, out_before, mainVars, notesVars>>

\* The loop is exhausted and the with block closes the file.
CloseMarkdown ==
    /\ pc = "w_loop"
    /\ seg_i = Len(all_segments)
    /\ out_file' = out_file \o Flatten(f_buf)
    /\ f_buf' = <<>>
    /\ pc' = ReturnTo("after_save")
    /\ UNCHANGED <<uiVars, tsVars, caller, all_segments, seg_i, flushed, out_before,
                   mainVars, notesVars>>

\* json.dump(data, f, indent=4, ensure_ascii=False)
JsonWrite ==
    /\ pc = "j_dump"
    /\ f_buf' = f_buf \o JsonDump(all_segments)
    /\ pc' = "j_close"
    /\ UNCHANGED <<uiVars, tsVars, caller, all_segments, out_file, seg_i, flushed, out_before,
                   mainVars, notesVars>>

\* The with block of the json branch closes the file.
CloseJson ==
    /\ pc = "j_close"
    /\ out_file' = out_file \o Flatten(f_buf)
    /\ f_buf' = <<>>
    /\ pc' = ReturnTo("after_save")
    /\ UNCHANGED <<uiVars, tsVars, caller, all_segments, seg_i, flushed, out_before,
                   mainVars, notesVars>>

\* The file object's buffer fills and hands its oldest write to the file
\* before any flush() or close().
BufferSpill ==
    /\ FileOpen
    /\ f_buf # <<>>
    /\ out_file' = out_file \o Head(f_buf)
    /\ f_buf' = Tail(f_buf)
    /\ UNCHANGED <<uiVars, tsVars, caller, pc, all_segments, seg_i, flushed, out_before,
                   mainVars, notesVars>>

\* f.write, f.flush or json.dump raises: the with block closes the file, and
\* the close writes the buffer or fails to.
WriteFail ==
    /\ FileOpen
    /\ \E n \in 0..Len(f_buf) :
          out_file' = out_file \o Flatten(SubSeq(f_buf, 1, n))
    /\ f_buf' = <<>>
    /\ pc' = RaiseTo("Writing")
    /\ failed_in' = "Writing"
    /\ UNCHANGED <<uiVars, tsVars, caller, all_segments, seg_i, flushed, out_before, run, args,
                   video_exists, temp_audio, notes_file, stages, exit_code,
                   notes_before, probe, notesVars>>

\* The process is killed while the file is open: what the file object had
\* buffered is lost.
Interrupt ==
    /\ FileOpen
    /\ f_buf' = <<>>
    /\ pc' = "killed"
    /\ UNCHANGED <<uiVars, tsVars, caller, all_segments, out_file, seg_i, flushed, out_before,
                   mainVars, notesVars>>

SaveTranscript ==
    \/ SaveOpen
    \/ SaveOpenFail
    \/ WriteHeader
    \/ WriteLine
    \/ FlushLine
    \/ CloseMarkdown
    \/ JsonWrite
    \/ CloseJson
    \/ BufferSpill
    \/ WriteFail

\* The values of the state another entry point does not use.
IdleMain ==
    /\ run = 0
    /\ video_exists = TRUE
    /\ temp_audio = FALSE
    /\ notes_file = NoFile
    /\ stages = <<>>
    /\ failed_in = "none"
    /\ exit_code = -1
    /\ notes_before = NoFile
    /\ probe = "none"

IdleTimestamp ==
    /\ ts_in = Tenths(0)
    /\ ts_out = <<>>

\* A segment list object, known by the transcribe_video run that made it;
\* run 0 is None.
SegmentsOf(r, data) == [run |-> r, data |-> data]

NoSegments == SegmentsOf(0, <<>>)

\* A transcript path is known by the run whose mkdtemp directory holds it;
\* 0 is None.
NoPath == 0

\* transcription_state = {"segments": None, "transcript_path": None}
IdleUi ==
    /\ transcription_state = [segments |-> NoSegments, transcript_path |-> NoPath]
    /\ t_pc = "idle"
    /\ t_run = 0
    /\ t_segments = NoSegments
    /\ g_pc = "idle"
    /\ g_segments = NoSegments
    /\ g_path = NoPath
    /\ g_result = "none"
    /\ notes_written = [segments |-> 0, dir |-> 0]

IdleWriter ==
    /\ f_buf = <<>>
    /\ seg_i = 0
    /\ flushed = 0
    /\ out_before = NoFile

IdleNotes ==
    /\ transcript_text = <<>>
    /\ start = 0
    /\ chunks = <<>>
    /\ chunk_i = 0
    /\ final_notes = <<>>
    /\ responses = <<>>

\* save_transcript called on its own with a materialised segment list.
InitWriter ==
    /\ caller = "save_transcript"
    /\ pc = "save"
    /\ args \in {a \in ArgSets : ~a.keep_audio /\ ~a.ai}
    /\ all_segments \in SegmentLists
    /\ out_file \in {NoFile, OldText}
    /\ chunk_size = 2
    /\ overlap = 1
    /\ IdleMain
    /\ IdleWriter
    /\ IdleNotes
    /\ IdleTimestamp
    /\ IdleUi

NextWriter == SaveTranscript \/ Interrupt

SpecWriter == InitWriter /\ [][NextWriter]_vars

(* ----------------- generate_tutorial_notes, step by step --------------- *)

\* The document is kept as the pieces the f-strings concatenate.
Title == "# Detailed Video Tutorial\n\n"

\* What ollama.chat can return as response['message']['content'].
Contents == {"steps"}

\* The exceptions ollama.chat or the indexing of its response can raise.
Errors == {"connection refused"}

\* The first n characters of a text whose characters are all different.
Alphabet == <<"a", "b", "c", "d", "e", "f", "g", "h", "i", "j">>

Text(n) == SubSeq(Alphabet, 1, n)

\* while start < len(transcript_text): one pass of the loop body.
ChunkStep ==
    /\ pc = "g_split"
    /\ start < Len(transcript_text)
    /\ chunks' = Append(chunks, Slice(transcript_text, start, start + chunk_size))
    /\ start' = start + chunk_size - overlap
    /\ UNCHANGED <<uiVars, tsVars, caller, pc, all_segments, chunk_size, overlap, transcript_text,
                   chunk_i, final_notes, responses, mainVars, writerVars>>

\* The loop condition fails; final_notes = "# Detailed Video Tutorial\n\n".
ChunkDone ==
    /\ pc = "g_split"
    /\ start >= Len(transcript_text)
    /\ final_notes' = <<Title>>
    /\ chunk_i' = 0
    /\ pc' = "g_chat"
    /\ UNCHANGED <<uiVars, tsVars, caller, all_segments, chunk_size, overlap, transcript_text,
                   start, chunks, responses, mainVars, writerVars>>

\* ollama.chat answers for chunk i; final_notes += "\n\n## Part {i+1}\n\n{content}".
ChatOk ==
    /\ pc = "g_chat"
    /\ chunk_i < Len(chunks)
    /\ \E content \in Contents :
          /\ final_notes' = final_notes
                 \o <<"\n\n## Part ">> \o Decimal(chunk_i + 1) \o <<"\n\n", content>>
          /\ responses' = Append(responses, [ok |-> TRUE, body |-> content])
    /\ chunk_i' = chunk_i + 1
    /\ UNCHANGED <<uiVars, tsVars, caller, pc, all_segments, chunk_size, overlap, transcript_text,
                   start, chunks, mainVars, writerVars>>

\* ChatFail with a handler that records the failure and leaves the loop.
ChatFail_Break ==
    /\ pc = "g_chat"
    /\ chunk_i < Len(chunks)
    /\ \E e \in Errors :
          /\ final_notes' = final_notes
                 \o <<"\n\n## Part ">> \o Decimal(chunk_i + 1)
                 \o <<" (Error)\n\n[Failed to generate notes for this section: ", e, "]\n">>
          /\ responses' = Append(responses, [ok |-> FALSE, body |-> e])
    /\ chunk_i' = Len(chunks)
    /\ UNCHANGED <<uiVars, tsVars, caller, pc, all_segments, chunk_size, overlap, transcript_text,
                   start, chunks, mainVars, writerVars>>

\* ollama.chat raises for chunk i; the handler appends the failure section.
ChatFail ==
    /\ pc = "g_chat"
    /\ chunk_i < Len(chunks)
    /\ \E e \in Errors :
          /\ final_notes' = final_notes
                 \o <<"\n\n## Part ">> \o Decimal(chunk_i + 1)
                 \o <<" (Error)\n\n[Failed to generate notes for this section: ", e, "]\n">>
          /\ responses' = Append(responses, [ok |-> FALSE, body |-> e])
    /\ chunk_i' = chunk_i + 1
    /\ UNCHANGED <<uiVars, tsVars, caller, pc, all_segments, chunk_size, overlap, transcript_text,
                   start, chunks, mainVars, writerVars>>

\* return final_notes
NotesReturn ==
    /\ pc = "g_chat"
    /\ chunk_i = Len(chunks)
    /\ pc' = ReturnTo("write_notes")
    /\ UNCHANGED <<uiVars, tsVars, caller, all_segments, notesVars, mainVars, writerVars>>

GenerateTutorialNotes ==
    \/ ChunkStep
    \/ ChunkDone
    \/ ChatOk
    \/ ChatFail
    \/ NotesReturn

\* The source fixes chunk_size = 15000 and overlap = 500; the chunker is run
\* here with every pair overlap < chunk_size up to MaxChunk.
ChunkParams ==
    { p \in (1..MaxChunk) \X (0..MaxChunk) : p[2] < p[1] }

\* generate_tutorial_notes called on its own with a transcript text.
InitNotes ==
    /\ caller = "generate_tutorial_notes"
    /\ pc = "g_split"
    /\ args \in {a \in ArgSets : ~a.keep_audio /\ a.ai /\ a.format = "markdown"}
    /\ all_segments = <<>>
    /\ out_file = NoFile
    /\ \E p \in ChunkParams : chunk_size = p[1] /\ overlap = p[2]
    /\ transcript_text \in { Text(n) : n \in 0..MaxTextLen }
    /\ start = 0
    /\ chunks = <<>>
    /\ chunk_i = 0
    /\ final_notes = <<>>
    /\ responses = <<>>
    /\ IdleMain
    /\ IdleWriter
    /\ IdleTimestamp
    /\ IdleUi

NextNotes == GenerateTutorialNotes

SpecNotes == InitNotes /\ [][NextNotes]_vars

(* ------------------------------- main ---------------------------------- *)

\* "\n".join([f"[{s['start']}-{s['end']}] {s['text']}" for s in all_segments])
full_text(segments) ==
    Join([k \in 1..Len(segments) |->
              <<"[">> \o segments[k].start \o <<"-">> \o segments[k].end
                  \o <<"]", " ">> \o segments[k].text],
         <<"\n">>)

\* cleanup_audio: the file is removed if it exists; the result is whether
\* the path exists afterwards.
cleanup_audio(exists) == IF exists THEN FALSE ELSE exists

\* FinallyCleanup with the test of the keep-audio flag inverted.
FinallyCleanup_Inverted(keep_audio, exists) ==
    IF keep_audio /\ exists THEN FALSE ELSE exists

\* The finally clause: whether the temporary audio exists after it.
FinallyCleanup(keep_audio, exists) ==
    IF ~keep_audio /\ exists THEN cleanup_audio(exists) ELSE exists

\* The locals of a run that has not reached save_transcript or the generator.
ResetLocals ==
    /\ all_segments' = <<>>
    /\ f_buf' = <<>>
    /\ seg_i' = 0
    /\ flushed' = 0
    /\ out_before' = NoFile
    /\ transcript_text' = <<>>
    /\ start' = 0
    /\ chunks' = <<>>
    /\ chunk_i' = 0
    /\ final_notes' = <<>>
    /\ responses' = <<>>

\* main up to the try statement: the input check, or the first stage.
Start ==
    /\ pc = "start"
    /\ IF video_exists
       THEN /\ pc' = "extract"
            /\ stages' = <<"ExtractingAudio">>
            /\ UNCHANGED <<exit_code, failed_in>>
       ELSE /\ pc' = "exited"
            /\ exit_code' = 1
            /\ failed_in' = "Input"
            /\ UNCHANGED stages
    /\ UNCHANGED <<uiVars, tsVars, caller, run, args, video_exists, temp_audio, notes_file,
                   notes_before, probe, all_segments, writerVars, notesVars>>

\* extract_audio returns: ffmpeg wrote the audio to temp_audio_path.
ExtractOk ==
    /\ pc = "extract"
    /\ temp_audio' = TRUE
    /\ pc' = "transcribe"
    /\ stages' = Append(stages, "Transcribing")
    /\ UNCHANGED <<uiVars, tsVars, caller, run, args, video_exists, notes_file, failed_in,
                   exit_code, notes_before, probe, all_segments, writerVars, notesVars>>

\* extract_audio raises ffmpeg.Error: ffmpeg may have left a partial file.
ExtractFail ==
    /\ pc = "extract"
    /\ temp_audio' \in {temp_audio, TRUE}
    /\ pc' = "except"
    /\ failed_in' = "ExtractingAudio"
    /\ UNCHANGED <<uiVars, tsVars, caller, run, args, video_exists, notes_file, stages,
                   exit_code, notes_before, probe, all_segments, writerVars, notesVars>>

\* all_segments = list(segments): the generator runs to exhaustion.
TranscribeOk ==
    /\ pc = "transcribe"
    /\ temp_audio
    /\ \E stream \in RawStreams : all_segments' = transcribe_audio(stream)
    /\ pc' = "save"
    /\ stages' = Append(stages, "Writing")
    /\ UNCHANGED <<uiVars, tsVars, caller, run, args, video_exists, temp_audio, notes_file,
                   failed_in, exit_code, notes_before, probe, writerVars, notesVars>>

\* TranscribeFail with the exception swallowed: the run goes on with no segments.
TranscribeFail_Swallowed ==
    /\ pc = "transcribe"
    /\ pc' = "save"
    /\ stages' = Append(stages, "Writing")
    /\ failed_in' = "Transcribing"
    /\ UNCHANGED <<uiVars, tsVars, caller, run, args, video_exists, temp_audio, notes_file,
                   exit_code, notes_before, probe, all_segments, writerVars,
                   notesVars>>

\* The generator raises: the audio is missing, the model does not load, or
\* decoding fails in mid-stream.
TranscribeFail ==
    /\ pc = "transcribe"
    /\ pc' = "except"
    /\ failed_in' = "Transcribing"
    /\ UNCHANGED <<uiVars, tsVars, caller, run, args, video_exists, temp_audio, notes_file,
                   stages, exit_code, notes_before, probe, all_segments, writerVars,
                   notesVars>>

\* AfterSave without the test of args.ai.
AfterSave_Always ==
    /\ pc = "after_save"
    /\ pc' = "probe"
    /\ stages' = Append(stages, "Generating")
    /\ UNCHANGED <<uiVars, tsVars, caller, run, args, video_exists, temp_audio, notes_file,
                   failed_in, exit_code, notes_before, probe, all_segments, writerVars,
                   notesVars>>

\* if args.ai: the generation stage is entered, or the try block ends.
AfterSave ==
    /\ pc = "after_save"
    /\ IF args.ai
       THEN /\ pc' = "probe"
            /\ stages' = Append(stages, "Generating")
       ELSE /\ pc' = "finally"
            /\ UNCHANGED stages
    /\ UNCHANGED <<uiVars, tsVars, caller, run, args, video_exists, temp_audio, notes_file,
                   failed_in, exit_code, notes_before, probe, all_segments, writerVars,
                   notesVars>>

\* check_ollama_server() returns True; generate_tutorial_notes(full_text) is entered.
ProbeOk ==
    /\ pc = "probe"
    /\ transcript_text' = full_text(all_segments)
    /\ start' = 0
    /\ chunks' = <<>>
    /\ pc' = "g_split"
    /\ probe' = "up"
    /\ UNCHANGED <<uiVars, tsVars, caller, all_segments, chunk_size, overlap, chunk_i, final_notes,
                   responses, run, args, video_exists, temp_audio, notes_file,
                   stages, failed_in, exit_code, notes_before, writerVars>>

\* ProbeFail with the result of the probe ignored: generation is entered.
ProbeFail_Ignored ==
    /\ pc = "probe"
    /\ transcript_text' = full_text(all_segments)
    /\ start' = 0
    /\ chunks' = <<>>
    /\ pc' = "g_split"
    /\ probe' = "down"
    /\ UNCHANGED <<uiVars, tsVars, caller, all_segments, chunk_size, overlap, chunk_i, final_notes,
                   responses, run, args, video_exists, temp_audio, notes_file,
                   stages, failed_in, exit_code, notes_before, writerVars>>

\* check_ollama_server() returns False: ollama.list() raised.
ProbeFail ==
    /\ pc = "probe"
    /\ pc' = "finally"
    /\ probe' = "down"
    /\ UNCHANGED <<uiVars, tsVars, caller, all_segments, run, args, video_exists, temp_audio,
                   notes_file, stages, failed_in, exit_code, notes_before,
                   writerVars, notesVars>>

\* with open(ai_output_path, "w") as f: f.write(notes)
WriteNotesOk ==
    /\ pc = "write_notes"
    /\ notes_file' = final_notes
    /\ pc' = "finally"
    /\ UNCHANGED <<uiVars, tsVars, caller, run, args, video_exists, temp_audio, stages, failed_in,
                   exit_code, notes_before, probe, all_segments, writerVars, notesVars>>

\* open raises and leaves the file alone, or the write raises after open
\* has truncated the file.
WriteNotesFail ==
    /\ pc = "write_notes"
    /\ notes_file' \in {notes_file, <<>>}
    /\ pc' = "except"
    /\ failed_in' = "Generating"
    /\ UNCHANGED <<uiVars, tsVars, caller, run, args, video_exists, temp_audio, stages,
                   exit_code, notes_before, probe, all_segments, writerVars, notesVars>>

\* except Exception: the diagnostic is printed and sys.exit(1) is raised.
Except ==
    /\ pc = "except"
    /\ exit_code' = 1
    /\ pc' = "finally"
    /\ UNCHANGED <<uiVars, tsVars, caller, run, args, video_exists, temp_audio, notes_file, stages,
                   failed_in, notes_before, probe, all_segments, writerVars, notesVars>>

\* finally: the temporary audio is removed unless --keep-audio was given.
Finally ==
    /\ pc = "finally"
    /\ temp_audio' = FinallyCleanup(args.keep_audio, temp_audio)
    /\ exit_code' = IF exit_code = -1 THEN 0 ELSE exit_code
    /\ pc' = "exited"
    /\ UNCHANGED <<uiVars, tsVars, caller, run, args, video_exists, notes_file, stages, failed_in,
                   notes_before, probe, all_segments, writerVars, notesVars>>

\* main is run again on the same input path, with any command line; the
\* input may have been removed or restored in between.
Rerun ==
    /\ pc = "exited"
    /\ run < MaxRuns
    /\ run' = run + 1
    /\ args' \in ArgSets
    /\ video_exists' \in BOOLEAN
    /\ stages' = <<>>
    /\ failed_in' = "none"
    /\ exit_code' = -1
    /\ notes_before' = notes_file
    /\ probe' = "none"
    /\ pc' = "start"
    /\ ResetLocals
    /\ UNCHANGED <<uiVars, tsVars, caller, temp_audio, out_file, notes_file, chunk_size, overlap>>

Main ==
    \/ Start
    \/ ExtractOk
    \/ ExtractFail
    \/ TranscribeOk
    \/ TranscribeFail
    \/ AfterSave
    \/ ProbeOk
    \/ ProbeFail
    \/ WriteNotesOk
    \/ WriteNotesFail
    \/ Except
    \/ Finally
    \/ Rerun

\* The first run of main in a directory that holds none of its files.
Init ==
    /\ caller = "main"
    /\ pc = "start"
    /\ run = 1
    /\ args \in ArgSets
    /\ video_exists \in BOOLEAN
    /\ temp_audio = FALSE
    /\ out_file = NoFile
    /\ notes_file = NoFile
    /\ stages = <<>>
    /\ failed_in = "none"
    /\ exit_code = -1
    /\ notes_before = NoFile
    /\ probe = "none"
    /\ all_segments = <<>>
    \* chunk_size = 15000 and overlap = 500 in the source, scaled to the
    \* transcripts of the model: a transcript of two segments takes two chunks.
    /\ chunk_size = 30
    /\ overlap = 4
    /\ IdleWriter
    /\ IdleNotes
    /\ IdleTimestamp
    /\ IdleUi

Next == Main \/ SaveTranscript \/ GenerateTutorialNotes

Spec == Init /\ [][Next]_vars

(* --------------------------- format_timestamp -------------------------- *)

\* Whole seconds of the durations format_timestamp is called with: around
\* the minute, the hour and the hundredth minute, and a four-hour video.
SecondsInputs == {0, 1, 59, 60, 75, 599, 600, 3599, 3600, 5999, 6000, 6001, 14400}

\* Microseconds of the fraction of those durations.
MicrosInputs == {0, 1, 400000, 900000, 999998, 999999}

DurationInputs ==
    { Duration(s, u, b) : s \in SecondsInputs, u \in MicrosInputs, b \in 0..3 }

\* format_timestamp(seconds) is called and returns.
FormatTimestamp ==
    /\ pc = "ts_call"
    /\ ts_out' = format_timestamp(ts_in)
    /\ pc' = "returned"
    /\ UNCHANGED <<uiVars, ts_in, caller, all_segments, mainVars, writerVars, notesVars>>

\* format_timestamp called on its own with a non-negative duration.
InitTimestamp ==
    /\ caller = "format_timestamp"
    /\ pc = "ts_call"
    /\ ts_in \in DurationInputs
    /\ ts_out = <<>>
    /\ args \in {a \in ArgSets : ~a.keep_audio /\ ~a.ai /\ a.format = "markdown"}
    /\ all_segments = <<>>
    /\ out_file = NoFile
    /\ chunk_size = 2
    /\ overlap = 1
    /\ IdleMain
    /\ IdleWriter
    /\ IdleNotes
    /\ IdleUi

NextTimestamp == FormatTimestamp

SpecTimestamp == InitTimestamp /\ [][NextTimestamp]_vars

(* --------------------------------- ui ---------------------------------- *)

\* What a handler of ui.py leaves alone: the state of the command line.
cliVars == <<tsVars, caller, pc, all_segments, mainVars, writerVars, notesVars>>

\* transcribe_video is invoked with a video: tempfile.mkdtemp() makes the
\* output directory of this run. (Without a video it returns at once.)
T_Invoke ==
    /\ t_pc = "idle"
    /\ t_run < MaxUiRuns
    /\ t_run' = t_run + 1
    /\ t_segments' = NoSegments
    /\ t_pc' = "work"
    /\ UNCHANGED <<transcription_state, g_pc, g_segments, g_path, g_result,
                   notes_written, cliVars>>

\* The audio is extracted, transcribed and saved to transcript_path.
T_WorkOk ==
    /\ t_pc = "work"
    /\ \E data \in SegmentLists : t_segments' = SegmentsOf(t_run, data)
    /\ t_pc' = "store_segments"
    /\ UNCHANGED <<transcription_state, t_run, g_pc, g_segments, g_path, g_result,
                   notes_written, cliVars>>

\* One of these raises: the handler logs the error and returns.
T_WorkFail ==
    /\ t_pc = "work"
    /\ t_pc' = "idle"
    /\ UNCHANGED <<transcription_state, t_run, t_segments, g_pc, g_segments, g_path,
                   g_result, notes_written, cliVars>>

\* transcription_state["segments"] = all_segments
T_StoreSegments ==
    /\ t_pc = "store_segments"
    /\ transcription_state' = [transcription_state EXCEPT !.segments = t_segments]
    /\ t_pc' = "store_path"
    /\ UNCHANGED <<t_run, t_segments, g_pc, g_segments, g_path, g_result,
                   notes_written, cliVars>>

\* transcription_state["transcript_path"] = transcript_path, and the return.
T_StorePath ==
    /\ t_pc = "store_path"
    /\ transcription_state' = [transcription_state EXCEPT !.transcript_path = t_run]
    /\ t_pc' = "idle"
    /\ UNCHANGED <<t_run, t_segments, g_pc, g_segments, g_path, g_result,
                   notes_written, cliVars>>

\* generate_ai_notes is invoked and finds segments in the slot. (With None
\* there it returns at once.)
G_Invoke ==
    /\ g_pc = "idle"
    /\ transcription_state.segments # NoSegments
    /\ g_segments' = NoSegments
    /\ g_path' = NoPath
    /\ g_result' = "none"
    /\ g_pc' = "read_segments"
    /\ UNCHANGED <<transcription_state, t_pc, t_run, t_segments, notes_written,
                   cliVars>>

\* all_segments = transcription_state["segments"]
G_ReadSegments ==
    /\ g_pc = "read_segments"
    /\ g_segments' = transcription_state.segments
    /\ g_pc' = "read_path"
    /\ UNCHANGED <<transcription_state, t_pc, t_run, t_segments, g_path, g_result,
                   notes_written, cliVars>>

\* transcript_path = transcription_state["transcript_path"]; notes_path is
\* derived from it: os.path.dirname(None) raises TypeError outside the try.
G_ReadPath ==
    /\ g_pc = "read_path"
    /\ g_path' = transcription_state.transcript_path
    /\ IF transcription_state.transcript_path = NoPath
       THEN g_pc' = "idle" /\ g_result' = "TypeError"
       ELSE g_pc' = "generate" /\ UNCHANGED g_result
    /\ UNCHANGED <<transcription_state, t_pc, t_run, t_segments, g_segments,
                   notes_written, cliVars>>

\* check_ollama_server() is False: the handler returns.
G_ProbeFail ==
    /\ g_pc = "generate"
    /\ g_result' = "no server"
    /\ g_pc' = "idle"
    /\ UNCHANGED <<transcription_state, t_pc, t_run, t_segments, g_segments, g_path,
                   notes_written, cliVars>>

\* The notes are generated from all_segments and written to notes_path.
G_WriteNotes ==
    /\ g_pc = "generate"
    /\ notes_written' = [segments |-> g_segments.run, dir |-> g_path]
    /\ g_result' = "written"
    /\ g_pc' = "idle"
    /\ UNCHANGED <<transcription_state, t_pc, t_run, t_segments, g_segments, g_path,
                   cliVars>>

\* Generation or the write raises: the handler logs the error and returns.
G_Fail ==
    /\ g_pc = "generate"
    /\ g_result' = "failed"
    /\ g_pc' = "idle"
    /\ UNCHANGED <<transcription_state, t_pc, t_run, t_segments, g_segments, g_path,
                   notes_written, cliVars>>

TranscribeVideo ==
    \/ T_Invoke
    \/ T_WorkOk
    \/ T_WorkFail
    \/ T_StoreSegments
    \/ T_StorePath

GenerateAiNotes ==
    \/ G_Invoke
    \/ G_ReadSegments
    \/ G_ReadPath
    \/ G_ProbeFail
    \/ G_WriteNotes
    \/ G_Fail

\* The UI process after import: the slot is empty and no handler runs.
InitUi ==
    /\ caller = "ui"
    /\ pc = "serving"
    /\ args \in {a \in ArgSets : ~a.keep_audio /\ ~a.ai /\ a.format = "markdown"}
    /\ all_segments = <<>>
    /\ out_file = NoFile
    /\ chunk_size = 2
    /\ overlap = 1
    /\ IdleMain
    /\ IdleWriter
    /\ IdleNotes
    /\ IdleTimestamp
    /\ IdleUi

\* The two click handlers are separate event listeners of the queue and run
\* in worker threads: their steps interleave.
NextUi == TranscribeVideo \/ GenerateAiNotes

SpecUi == InitUi /\ [][NextUi]_vars

(* ------------------------------ claims --------------------------------- *)

\* The stages of spec section 4.5, in their order.
StageOrder == <<"ExtractingAudio", "Transcribing", "Writing", "Generating">>

\* What save_transcript leaves at output_path when it returns.
SavedText(segments, format) ==
    IF format = "json" THEN JsonText(segments) ELSE MarkdownText(segments)

\* C1: a run of main without --keep-audio that has ended, in success or in a
\* failure raised during extraction, transcription, writing or generation,
\* leaves no file at the temporary audio path.
C1_TempAudioRemoved ==
    ( /\ pc = "exited"
      /\ ~args.keep_audio
      /\ failed_in \in {"none", "ExtractingAudio", "Transcribing", "Writing", "Generating"} )
        => ~temp_audio

\* C1 witness: a run without --keep-audio extracted the audio, failed while
\* transcribing and has ended with the audio gone.
C1_Witness ==
    /\ pc = "exited"
    /\ ~args.keep_audio
    /\ failed_in = "Transcribing"
    /\ stages = <<"ExtractingAudio", "Transcribing">>
    /\ ~temp_audio

C2_Section(i, r) ==
    IF r.ok
    THEN <<"\n\n## Part ">> \o Decimal(i) \o <<"\n\n", r.body>>
    ELSE <<"\n\n## Part ">> \o Decimal(i)
             \o <<" (Error)\n\n[Failed to generate notes for this section: ", r.body, "]\n">>

\* C2: generate_tutorial_notes calls the backend once for every window,
\* whatever the earlier calls did, and returns the title followed by one
\* section per window in window order: 'Part i' with the backend's content
\* for a call that succeeded, the failure-annotated 'Part i' naming the
\* error for a call that failed.
C2_PartialFailureIsolation ==
    pc = "returned" =>
        /\ Len(responses) = Len(chunks)
        /\ final_notes =
              <<Title>> \o Flatten([i \in 1..Len(chunks) |-> C2_Section(i, responses[i])])

\* C2 witness: three windows, the backend failed on the second only.
C2_Witness ==
    /\ pc = "returned"
    /\ Len(chunks) = 3
    /\ Len(responses) = 3
    /\ responses[1].ok
    /\ ~responses[2].ok
    /\ responses[3].ok

RECURSIVE SumLen(_)
SumLen(ss) == IF ss = <<>> THEN 0 ELSE Len(Head(ss)) + SumLen(Tail(ss))

\* C3: for a non-empty text and overlap < window, the window lengths add up
\* to the length of the text plus overlap * (number of windows - 1).
C3_ReconstructionLaw ==
    ( /\ pc # "g_split"
      /\ transcript_text # <<>>
      /\ overlap < chunk_size )
        => SumLen(chunks) - overlap * (Len(chunks) - 1) = Len(transcript_text)

\* C4: a text no longer than the window gives exactly one window, the text
\* (stated for the non-empty texts; the empty text gives no window at all).
C4_ShortTextOneWindow ==
    ( /\ pc # "g_split"
      /\ transcript_text # <<>>
      /\ Len(transcript_text) <= chunk_size )
        => chunks = <<transcript_text>>

\* C5: when check_ollama_server fails in a run of main, no window is cut or
\* processed, the backend gets no generation call, the notes file is not
\* written, the transcript written before stays complete at its path, and
\* the run ends without failure.
C5_ProbeDownSkipsGeneration ==
    probe = "down" =>
        /\ chunks = <<>>
        /\ chunk_i = 0
        /\ responses = <<>>
        /\ notes_file = notes_before
        /\ out_file = SavedText(all_segments, args.format)
        /\ failed_in = "none"
        /\ pc \in {"finally", "exited"}
        /\ (pc = "exited" => exit_code = 0)

\* C5 witness: a run whose probe failed has ended, with a transcript of two segments.
C5_Witness ==
    /\ probe = "down"
    /\ pc = "exited"
    /\ Len(all_segments) = 2
    /\ out_file = SavedText(all_segments, args.format)

\* C6: the stages of a run are entered in the order ExtractingAudio,
\* Transcribing, Writing, Generating; Generating (the probe, the generation
\* calls, the notes write) is entered only with --ai and with the transcript
\* completely written, and never in a run in which an earlier stage failed.
C6_StagesInOrder ==
    /\ IsPrefix(stages, StageOrder)
    /\ (pc \in {"probe", "g_split", "g_chat", "write_notes"} \/ probe # "none"
          \/ responses # <<>>)
          => Len(stages) = 4
    /\ Len(stages) = 4 =>
          /\ args.ai
          /\ out_file = SavedText(all_segments, args.format)
          /\ failed_in \in {"none", "Generating"}
    /\ failed_in \in {"Input", "ExtractingAudio", "Transcribing", "Writing"}
          => Len(stages) < 4

\* C6 witness: a run is in the generation loop after the three earlier stages.
C6_Witness ==
    /\ pc = "g_chat"
    /\ stages = StageOrder
    /\ Len(responses) = 1

\* C7 as claimed: after a run that ended in a fatal error (missing input,
\* extraction, transcription or writing failure) no notes file exists.
C7_NoNotesFileAfterFatal ==
    ( /\ pc = "exited"
      /\ failed_in \in {"Input", "ExtractingAudio", "Transcribing", "Writing"} )
        => notes_file = NoFile

\* C7, amended: a run that ended in a fatal error (missing input, extraction,
\* transcription or writing failure) made no generation call and left the
\* notes path as it found it: a notes file is there only if an earlier run
\* left it.
C7_FatalRunLeavesNotesAlone ==
    ( /\ pc = "exited"
      /\ failed_in \in {"Input", "ExtractingAudio", "Transcribing", "Writing"} )
        => /\ notes_file = notes_before
           /\ responses = <<>>

\* C7 witness: a run failed while writing the transcript, after an earlier
\* run had left generated notes.
C7_Witness ==
    /\ pc = "exited"
    /\ failed_in = "Writing"
    /\ notes_before # NoFile
    /\ notes_before # <<>>
    /\ notes_file = notes_before

\* C8 as claimed: whenever the markdown write is interrupted, the file holds
\* the header followed by the line of every segment written so far.
C8_EveryWrittenLineDurable ==
    ( /\ pc = "killed"
      /\ args.format = "markdown" )
        => out_file = MarkdownText(SubSeq(all_segments, 1, seg_i))

\* C8, amended: at every point of the markdown write, and after an
\* interruption of it, the file is empty with nothing flushed yet, or holds
\* the header followed by the lines of the first k segments in input order,
\* where k is at least the number of lines flushed and at most the number of
\* lines written.
C8_FlushedPrefixDurable ==
    ( /\ FileOpen \/ pc = "killed"
      /\ args.format = "markdown" )
        => \/ flushed = 0 /\ out_file = <<>>
           \/ \E k \in flushed..seg_i :
                 out_file = MarkdownText(SubSeq(all_segments, 1, k))

\* C8 witness: the write was interrupted after the second line was written
\* and before it was flushed; the file holds the header and the first line.
C8_Witness ==
    /\ pc = "killed"
    /\ args.format = "markdown"
    /\ seg_i = 2
    /\ flushed = 1
    /\ out_file = MarkdownText(SubSeq(all_segments, 1, 1))

\* C9: at every point from the start of the json write on, the file at the
\* output path holds its previous content or the complete serialised list.
C9_JsonWriteAtomic ==
    ( /\ args.format = "json"
      /\ pc # "save" )
        => out_file \in {out_before, JsonText(all_segments)}

C10_HeaderLine ==
    <<"#", " ", "V", "i", "d", "e", "o", " ",
      "T", "r", "a", "n", "s", "c", "r", "i", "p", "t">>

\* The line '**<start> - <end>**: <text>' of a segment.
C10_SegmentLine(segment) ==
    <<"*", "*">> \o segment.start \o <<" ", "-", " ">> \o segment.end
        \o <<"*", "*", ":", " ">> \o segment.text

\* C10 as claimed: the markdown file of n segments has n+1 lines, the header
\* line and then one line per segment in input order.
C10_HeaderThenSegmentLines ==
    ( /\ pc = "returned"
      /\ args.format = "markdown" )
        => LET ls == Lines(out_file)
               n  == Len(all_segments)
           IN  /\ Len(ls) = n + 1
               /\ ls[1] = C10_HeaderLine
               /\ \A k \in 1..n : ls[k + 1] = C10_SegmentLine(all_segments[k])

\* C10, amended: the markdown file of n segments has n+2 lines: the header
\* line, an empty line, and then one line per segment in input order.
C10_HeaderBlankThenSegmentLines ==
    ( /\ pc = "returned"
      /\ args.format = "markdown" )
        => LET ls == Lines(out_file)
               n  == Len(all_segments)
           IN  /\ Len(ls) = n + 2
               /\ ls[1] = C10_HeaderLine
               /\ ls[2] = <<>>
               /\ \A k \in 1..n : ls[k + 2] = C10_SegmentLine(all_segments[k])

\* C10 witness: a markdown file of two segments has been written completely.
C10_Witness ==
    /\ pc = "returned"
    /\ args.format = "markdown"
    /\ Len(all_segments) = 2
    /\ Len(Lines(out_file)) = 4

C11_Digits == {"0", "1", "2", "3", "4", "5", "6", "7", "8", "9"}

C11_DigitValue(c) ==
    CASE c = "0" -> 0 [] c = "1" -> 1 [] c = "2" -> 2 [] c = "3" -> 3 [] c = "4" -> 4
      [] c = "5" -> 5 [] c = "6" -> 6 [] c = "7" -> 7 [] c = "8" -> 8 [] c = "9" -> 9

RECURSIVE C11_Number(_)
\* The number a sequence of decimal digits writes.
C11_Number(ds) ==
    IF ds = <<>> THEN 0
    ELSE 10 * C11_Number(SubSeq(ds, 1, Len(ds) - 1)) + C11_DigitValue(ds[Len(ds)])

C11_AllDigits(ds) == \A k \in 1..Len(ds) : ds[k] \in C11_Digits

C12_SlotReadFromOneRun ==
    /\ g_pc = "generate" => g_segments.run = g_path
    /\ g_result # "TypeError"
    /\ notes_written.segments = notes_written.dir

====
